---- MODULE Spec2Model ----
(***************************************************************************)
(* Counting-session store (useVisionStore), the frame-capture path of      *)
(* VisionModeScreen / CameraView, the sleep timer, activity listeners and  *)
(* motion listener of useSleepMode, the ObjectDetectionService and the     *)
(* sheet store with its DatabaseService.                                   *)
(*                                                                         *)
(* The zustand store is one state object; set(partial) replaces it by a    *)
(* merged copy and notifies the subscribers synchronously.  JavaScript     *)
(* runs every handler to completion, so one action is one handler; the     *)
(* states a handler publishes with set() before its last set() are kept    *)
(* in `intermediate`.  An awaited detectObjects call is an entry of        *)
(* `inflight` between the step that starts it and the step that resumes    *)
(* the handler.                                                            *)
(*                                                                         *)
(* Numbers: coordinates and sizes are integers, box sizes are even so      *)
(* that x + width / 2 is exact; time is in milliseconds.                   *)
(* Fields no handler reads and no property mentions (timestamps, label,    *)
(* frameId, boundingBox.id, marker.id, startTime) are left out.            *)
(***************************************************************************)
EXTENDS Integers, Sequences, FiniteSets, TLC

VARIABLES
  store,          \* the zustand state object of useVisionStore
  now,            \* Date.now()
  isModelLoading, \* VisionModeScreen local state
  inflight,       \* awaited detectObjects calls, in capture order
  lastCmd,        \* name of the handler that ran last
  service,        \* objectDetectionService: model, isLoading, loadPromise, loads under way
  sheets,         \* useSheetStore.activeSheet, the sheets and sessions
                  \* object stores of databaseService and the
                  \* addCountToSheet calls that are under way
  camera,         \* the ImageData that useCamera.captureFrame() returns now
  motion,         \* device-motion samples: the one the sensor delivered last
                  \* and lastX/lastY/lastZ of the installed handleMotion
  lastArgs,       \* what that handler was given: the detection list handed to
                  \* setDetections, the template, the detection id, the sheet
                  \* id, the motion sample, the detectObjects arguments, or
                  \* the isSleeping value the hook had rendered with
  returned,       \* value returned by that handler (confirmAndSync)
  intermediate    \* states published by that handler before its last set();
                  \* for detectObjects, what went into nonMaxSuppression and
                  \* what came out

vars == <<store, now, isModelLoading, inflight, service, sheets, camera, motion, lastCmd,
          lastArgs, returned, intermediate>>

----------------------------------------------------------------------------
(* Bounds of the model *)

MaxDetections == 2    \* length of the transient list an operator may build up
MaxCandidates == 2    \* detections in one pipeline result
MaxMarkers == 1       \* markers added through addSpatialMarker
MaxInflight == 2      \* detectObjects calls awaited at once
MaxTicks == 2         \* seconds of clock the model follows
MaxConfirmed == 2     \* cap of confirmedCount
MaxCorrections == 1   \* cap of manualAdditions / manualRemovals
MaxShapes == 3        \* shapes fitted to the contours of one frame
MaxRows == 2          \* rows addCountToSheet appends to the sheets
MaxSyncs == 2         \* addCountToSheet calls under way at once

----------------------------------------------------------------------------
(* Values *)

DefaultThreshold == 50
DefaultSleepTimeoutMs == 30000
CheckIntervalMs == 1000
ManualConfidence == 100       \* confidence 1.0, in percent

DefaultConfidence == 50       \* confidenceThreshold 0.5, in percent

Templates == {"circles", "custom"}
ObjectTemplates == {"circles", "rectangles", "custom"}
SheetIds == {"sheet-1", "sheet-2"}

NoSession == [none |-> TRUE]
NoValue == [none |-> TRUE]

Box(x, y, w, h) == [x |-> x, y |-> y, width |-> w, height |-> h]

\* Centres (10,10) and (40,50), at distance exactly 50 from each other.
Boxes == { Box(0, 0, 20, 20), Box(30, 40, 20, 20) }

Point(x, y, z) == [worldX |-> x, worldY |-> y, worldZ |-> z]
\* (10,10,0) is the first centre; (70,10,0) is at distance 60 from the first
\* centre and 50 from the second.
MarkerPoints == { Point(10, 10, 0), Point(70, 10, 0) }

\* Confidences and IoU thresholds are in percent.
Thresholds == {30, DefaultConfidence, 70}
FitConfidenceGate == 50       \* `confidence > 0.5` after fitCircle / fitRectangle
IouThreshold == 30            \* nonMaxSuppression(shapes, 0.3)

Shape(x, y, w, h, c) ==
  [x |-> x, y |-> y, width |-> w, height |-> h, confidence |-> c]

\* What fitCircle / fitRectangle return for the contours of a frame that pass
\* their size gates.  The first box overlaps the second with IoU 1/2, the
\* third with IoU exactly 3/10 and the fourth with IoU 3/23; the second and
\* third have equal confidence and overlap with IoU 31/47; the fourth
\* overlaps the third with IoU 5/8; the fifth is apart from all, with a
\* confidence at the gate.
FitShapes ==
  { Shape(0, 0, 78, 20, 90), Shape(26, 0, 78, 20, 60), Shape(42, 0, 78, 20, 60),
    Shape(60, 0, 78, 20, 55), Shape(200, 0, 78, 20, FitConfidenceGate) }

FitLists == UNION { [1..n -> FitShapes] : n \in 0..MaxShapes }
ShortFitLists == UNION { [1..n -> FitShapes] : n \in 0..1 }

\* What model.detect(canvas) resolves to: bbox [x, y, width, height], score
\* and class.
Prediction(x, y, w, h, score, class) ==
  [bbox |-> <<x, y, w, h>>, score |-> score, class |-> class]
PredictionLists ==
  { <<>>, << Prediction(0, 0, 50, 50, 40, "person"),
             Prediction(100, 0, 50, 50, 90, "bottle") >> }

\* An ImageData: width, height and data.length, with what the pixels hold
\* reduced to the shapes fitted to their contours (in the order findContours
\* meets them) and to what the COCO-SSD model sees in them.  The pixel passes
\* (grayscale, Sobel, adaptive threshold, flood fill) are not followed.
Frame(length, fits, predictions) ==
  [ width |-> 640, height |-> 480, length |-> length,
    fits |-> fits, predictions |-> predictions ]

BlankFrame == Frame(640 * 480 * 4, <<>>, <<>>)

\* Frames whose buffer is 4 bytes per pixel with any fitted shapes, and frames
\* with a buffer one pixel short or with model predictions and at most one
\* fitted shape.
Frames ==
  { Frame(640 * 480 * 4, fits, <<>>) : fits \in FitLists }
    \cup { Frame(length, fits, predictions) :
             length \in {640 * 480 * 4, 640 * 480 * 4 - 4},
             fits \in ShortFitLists, predictions \in PredictionLists }

DEFAULT_SETTINGS ==
  [ sleepTimeoutMs |-> DefaultSleepTimeoutMs,
    confidenceThreshold |-> DefaultConfidence,
    enableDeduplication |-> TRUE,
    deduplicationDistanceThreshold |-> DefaultThreshold ]

SleepPatches == { [sleepTimeoutMs |-> 1 * CheckIntervalMs] }

\* motionThreshold of useSleepMode
MotionThreshold == 10

Sample(x, y, z) == [x |-> x, y |-> y, z |-> z]
ZeroSample == Sample(0, 0, 0)
\* Acceleration samples: summed distance from the zero sample 0, 10 and 11,
\* and 1 between the last two.
Samples == { ZeroSample, Sample(4, 3, 3), Sample(4, 4, 3) }

----------------------------------------------------------------------------
(* Identifiers *)

\* Identifiers are uuids.  Session, detection and row identifiers are never
\* compared with one another, so each kind is numbered on its own, and a
\* new identifier differs from those of the objects the store holds.
DetectionIds(dets) == { dets[i].id : i \in 1..Len(dets) }

SessionDetectionIds(sess) == IF sess = NoSession THEN {} ELSE
  DetectionIds(sess.detections)
    \cup { sess.spatialMarkers[i].detectionId : i \in 1..Len(sess.spatialMarkers) }

\* Every detection identifier some object of the store carries.
UsedIds ==
  DetectionIds(store.currentDetections)
    \cup SessionDetectionIds(store.currentSession)

\* The detection identifiers that stay in the store when setDetections
\* replaces the transient list: a pipeline result is numbered apart from these.
KeptIds == SessionDetectionIds(store.currentSession)

UsedSessionIds ==
  (IF store.currentSession = NoSession THEN {} ELSE {store.currentSession.id})
    \cup { sheets.sessions[i].id : i \in 1..Len(sheets.sessions) }
    \cup { sheets.calls[i].session.id : i \in 1..Len(sheets.calls) }

\* Row identifiers: the rowId of the snapshot just returned, the ids of the
\* rows of the sheets and the rowIds of the saved sessions.
UsedRowIds ==
  (IF "rowId" \in DOMAIN returned THEN {returned.rowId} ELSE {})
    \cup UNION { { sheets.rows[sh][i].id : i \in 1..Len(sheets.rows[sh]) } :
                   sh \in DOMAIN sheets.rows }
    \cup { sheets.sessions[i].rowId : i \in 1..Len(sheets.sessions) }
    \cup { sheets.calls[i].session.rowId : i \in 1..Len(sheets.calls) }
    \cup UNION { { sheets.calls[i].rows[j].id : j \in 1..Len(sheets.calls[i].rows) } :
                   i \in 1..Len(sheets.calls) }

\* uuidv4(): an identifier none of these objects carries; the model takes the
\* least one.
uuidv4(used) == CHOOSE i \in 1..(Cardinality(used) + 1) :
                  i \notin used /\ \A j \in 1..(i - 1) : j \in used

----------------------------------------------------------------------------
(* Initial state *)

InitialState ==
  [ isActive |-> FALSE,
    isPaused |-> FALSE,
    isProcessing |-> FALSE,
    selectedTemplate |-> "circles",
    currentDetections |-> <<>>,
    confirmedCount |-> 0,
    lastActivityTime |-> 0,
    isSleeping |-> FALSE,
    settings |-> DEFAULT_SETTINGS,
    currentSession |-> NoSession ]

Init ==
  /\ store = InitialState
  /\ now = 0
  /\ isModelLoading = TRUE
  /\ inflight = <<>>
  /\ service = [model |-> FALSE, isLoading |-> FALSE, loadPromise |-> "none", loads |-> 0]
  /\ sheets = [ activeSheet |-> "sheet-1",
                rows |-> [sh \in SheetIds |-> <<>>],
                sessions |-> <<>>,
                calls |-> <<>> ]
  /\ camera = BlankFrame
  /\ motion = [previous |-> ZeroSample, last |-> ZeroSample]
  /\ lastCmd = "init"
  /\ lastArgs = <<>>
  /\ returned = NoValue
  /\ intermediate = <<>>

----------------------------------------------------------------------------
(* useVisionStore: the handlers as functions of the state object `s`.       *)
(* `t` is Date.now(), `id`, `rowId` are results of uuidv4().                *)

\* Variant that keeps confirmedCount and isPaused; C21 tells it from
\* startVisionMode.
startVisionModeKeeping(s, template, t, id) ==
  [ s EXCEPT
      !.isActive = TRUE,
      !.isProcessing = FALSE,
      !.selectedTemplate = template,
      !.currentDetections = <<>>,
      !.lastActivityTime = t,
      !.isSleeping = FALSE,
      !.currentSession =
        [ id |-> id, template |-> template, totalCount |-> 0,
          manualAdditions |-> 0, manualRemovals |-> 0, detections |-> <<>>,
          spatialMarkers |-> <<>>, syncedToSheet |-> FALSE ] ]

startVisionMode(s, template, t, id) ==
  [ s EXCEPT
      !.isActive = TRUE,
      !.isPaused = FALSE,
      !.isProcessing = FALSE,
      !.selectedTemplate = template,
      !.currentDetections = <<>>,
      !.confirmedCount = 0,
      !.lastActivityTime = t,
      !.isSleeping = FALSE,
      !.currentSession =
        [ id |-> id, template |-> template, totalCount |-> 0,
          manualAdditions |-> 0, manualRemovals |-> 0, detections |-> <<>>,
          spatialMarkers |-> <<>>, syncedToSheet |-> FALSE ] ]

\* Variant that leaves isPaused and isSleeping as they are; C20 tells it
\* from stopVisionMode.
stopVisionModeKeepingFlags(s) ==
  [ s EXCEPT
      !.isActive = FALSE,
      !.isProcessing = FALSE,
      !.currentDetections = <<>>,
      !.confirmedCount = 0,
      !.currentSession = NoSession ]

\* Variant that leaves the session record in place; C35 tells it from
\* stopVisionMode.
stopVisionModeKeepingSession(s) ==
  [ s EXCEPT
      !.isActive = FALSE,
      !.isPaused = FALSE,
      !.isProcessing = FALSE,
      !.currentDetections = <<>>,
      !.confirmedCount = 0,
      !.isSleeping = FALSE ]

stopVisionMode(s) ==
  [ s EXCEPT
      !.isActive = FALSE,
      !.isPaused = FALSE,
      !.isProcessing = FALSE,
      !.currentDetections = <<>>,
      !.confirmedCount = 0,
      !.isSleeping = FALSE,
      !.currentSession = NoSession ]

pauseVisionMode(s) == [s EXCEPT !.isPaused = TRUE]

\* Variant that leaves lastActivityTime as it is; C31 tells it from
\* resumeVisionMode.
resumeVisionModeKeepingTime(s, t) == [s EXCEPT !.isPaused = FALSE]

resumeVisionMode(s, t) == [s EXCEPT !.isPaused = FALSE, !.lastActivityTime = t]

\* Math.sqrt(d2) < threshold, for an integer d2 >= 0: the root is below a
\* positive threshold exactly when d2 is below its square.
SqrtLessThan(d2, threshold) == threshold > 0 /\ d2 < threshold * threshold

\* Variant with the boundary included (distance <= threshold); C4 tells the
\* two apart.
SqrtAtMost(d2, threshold) == threshold >= 0 /\ d2 <= threshold * threshold

DistanceSquared(worldX, worldY, worldZ, marker) ==
  (worldX - marker.worldX) * (worldX - marker.worldX)
    + (worldY - marker.worldY) * (worldY - marker.worldY)
    + (worldZ - marker.worldZ) * (worldZ - marker.worldZ)

isDuplicateInclusive(s, worldX, worldY, worldZ) ==
  IF s.currentSession = NoSession THEN FALSE
  ELSE \E i \in 1..Len(s.currentSession.spatialMarkers) :
         SqrtAtMost(DistanceSquared(worldX, worldY, worldZ,
                                    s.currentSession.spatialMarkers[i]),
                    s.settings.deduplicationDistanceThreshold)

isDuplicate(s, worldX, worldY, worldZ) ==
  IF s.currentSession = NoSession THEN FALSE
  ELSE \E i \in 1..Len(s.currentSession.spatialMarkers) :
         SqrtLessThan(DistanceSquared(worldX, worldY, worldZ,
                                      s.currentSession.spatialMarkers[i]),
                      s.settings.deduplicationDistanceThreshold)

centerX(detection) == detection.boundingBox.x + detection.boundingBox.width \div 2
centerY(detection) == detection.boundingBox.y + detection.boundingBox.height \div 2

\* Variant that keeps the manual entries of the previous list and does not
\* filter; C5 tells it from setDetections.
setDetectionsMerging(s, detections) ==
  [ s EXCEPT
      !.currentDetections =
        SelectSeq(s.currentDetections, LAMBDA d : d.boundingBox.isManuallyAdded)
          \o detections,
      !.isProcessing = FALSE ]

setDetections(s, detections) ==
  IF ~s.settings.enableDeduplication
  THEN [s EXCEPT !.currentDetections = detections, !.isProcessing = FALSE]
  ELSE [ s EXCEPT
           !.currentDetections =
             SelectSeq(detections,
                       LAMBDA d : ~isDuplicate(s, centerX(d), centerY(d), 0)),
           !.isProcessing = FALSE ]

\* Variant that puts the new detection in front of the list; C32 tells it
\* from addManualDetection.
addManualDetectionInFront(s, x, y, width, height, id) ==
  [ s EXCEPT
      !.currentDetections =
        << [ id |-> id,
             boundingBox |->
               [ x |-> x, y |-> y, width |-> width, height |-> height,
                 confidence |-> ManualConfidence,
                 isManuallyAdded |-> TRUE, isRemoved |-> FALSE ] ] >> \o @,
      !.currentSession =
        IF @ = NoSession THEN NoSession
        ELSE [@ EXCEPT !.manualAdditions = @ + 1] ]

\* Variant that sets the flag of the named detection and clears the flag of
\* every other one; C33 tells it from removeDetection.
removeDetectionResettingOthers(s, detectionId) ==
  [ s EXCEPT
      !.currentDetections =
        [ i \in 1..Len(@) |->
            LET d == s.currentDetections[i]
            IN  [d EXCEPT !.boundingBox.isRemoved = (d.id = detectionId)] ],
      !.currentSession =
        IF @ = NoSession THEN NoSession
        ELSE [@ EXCEPT !.manualRemovals = @ + 1] ]

addManualDetection(s, x, y, width, height, id) ==
  [ s EXCEPT
      !.currentDetections =
        Append(@, [ id |-> id,
                    boundingBox |->
                      [ x |-> x, y |-> y, width |-> width, height |-> height,
                        confidence |-> ManualConfidence,
                        isManuallyAdded |-> TRUE, isRemoved |-> FALSE ] ]),
      !.currentSession =
        IF @ = NoSession THEN NoSession
        ELSE [@ EXCEPT !.manualAdditions = @ + 1] ]

removeDetection(s, detectionId) ==
  [ s EXCEPT
      !.currentDetections =
        [ i \in 1..Len(@) |->
            IF @[i].id = detectionId
            THEN [@[i] EXCEPT !.boundingBox.isRemoved = TRUE] ELSE @[i] ],
      !.currentSession =
        IF @ = NoSession THEN NoSession
        ELSE [@ EXCEPT !.manualRemovals = @ + 1] ]

\* Variant that clears the flag and leaves manualRemovals as it is; C22 tells
\* it from undoRemoval.
undoRemovalKeepingCount(s, detectionId) ==
  [ s EXCEPT
      !.currentDetections =
        [ i \in 1..Len(@) |->
            IF @[i].id = detectionId
            THEN [@[i] EXCEPT !.boundingBox.isRemoved = FALSE] ELSE @[i] ] ]

undoRemoval(s, detectionId) ==
  [ s EXCEPT
      !.currentDetections =
        [ i \in 1..Len(@) |->
            IF @[i].id = detectionId
            THEN [@[i] EXCEPT !.boundingBox.isRemoved = FALSE] ELSE @[i] ],
      !.currentSession =
        IF @ = NoSession THEN NoSession
        ELSE [@ EXCEPT !.manualRemovals = IF @ - 1 > 0 THEN @ - 1 ELSE 0] ]

addSpatialMarker(s, marker) ==
  [ s EXCEPT
      !.currentSession =
        IF @ = NoSession THEN NoSession
        ELSE [@ EXCEPT !.spatialMarkers = Append(@, marker)] ]

clearSpatialMarkers(s) ==
  [ s EXCEPT
      !.currentSession =
        IF @ = NoSession THEN NoSession
        ELSE [@ EXCEPT !.spatialMarkers = <<>>] ]

captureCount(s) ==
  Len(SelectSeq(s.currentDetections, LAMBDA d : ~d.boundingBox.isRemoved))

resetSession(s, id) ==
  [ s EXCEPT
      !.currentDetections = <<>>,
      !.confirmedCount = 0,
      !.currentSession =
        IF @ = NoSession THEN NoSession
        ELSE [ @ EXCEPT !.id = id, !.totalCount = 0, !.manualAdditions = 0,
                        !.manualRemovals = 0, !.detections = <<>>,
                        !.spatialMarkers = <<>>, !.syncedToSheet = FALSE ] ]

updateActivity(s, t) == [s EXCEPT !.lastActivityTime = t, !.isSleeping = FALSE]

setSleeping(s, isSleeping) == [s EXCEPT !.isSleeping = isSleeping]

updateSettings(s, newSettings) ==
  [ s EXCEPT
      !.settings =
        [ k \in DOMAIN @ |->
            IF k \in DOMAIN newSettings THEN newSettings[k] ELSE @[k] ] ]

----------------------------------------------------------------------------
(* confirmAndSync *)

\* Variant that counts removed detections too; C1 tells it from
\* activeDetections.
activeDetectionsUnfiltered(state) == state.currentDetections

\* const activeDetections = state.currentDetections.filter(...)
activeDetections(state) ==
  SelectSeq(state.currentDetections, LAMBDA d : ~d.boundingBox.isRemoved)

markerOf(detection) ==
  [ worldX |-> centerX(detection), worldY |-> centerY(detection),
    worldZ |-> 0, detectionId |-> detection.id ]

\* activeDetections.forEach(d => get().addSpatialMarker(...)): the states
\* published by the successive set() calls, starting from state `s`.
RECURSIVE commitMarkers(_, _, _)
commitMarkers(s, detections, i) ==
  IF i > Len(detections) THEN <<>>
  ELSE LET s1 == addSpatialMarker(s, markerOf(detections[i]))
       IN  <<s1>> \o commitMarkers(s1, detections, i + 1)

completedSession(state, sheetId, rowId, t) ==
  [ id |-> state.currentSession.id,
    template |-> state.currentSession.template,
    totalCount |-> Len(activeDetections(state)),
    manualAdditions |-> state.currentSession.manualAdditions,
    manualRemovals |-> state.currentSession.manualRemovals,
    detections |-> activeDetections(state),
    spatialMarkers |-> state.currentSession.spatialMarkers,
    endTime |-> t,
    syncedToSheet |-> TRUE,
    sheetId |-> sheetId,
    rowId |-> rowId ]

\* Variant whose new session keeps the id of the finished one; C18 tells it
\* from confirmFinalSet.
confirmFinalSetSameId(state, last, id) ==
  [ last EXCEPT
      !.confirmedCount = state.confirmedCount + Len(activeDetections(state)),
      !.currentDetections = <<>>,
      !.currentSession =
        [ state.currentSession EXCEPT
            !.totalCount = 0, !.manualAdditions = 0,
            !.manualRemovals = 0, !.detections = <<>>,
            !.syncedToSheet = FALSE ] ]

\* Variant that adds the length of the whole transient list, removed entries
\* included; C19 tells it from confirmFinalSet.
confirmFinalSetCountingAll(state, last, id) ==
  [ last EXCEPT
      !.confirmedCount = state.confirmedCount + Len(state.currentDetections),
      !.currentDetections = <<>>,
      !.currentSession =
        [ state.currentSession EXCEPT
            !.id = id, !.totalCount = 0, !.manualAdditions = 0,
            !.manualRemovals = 0, !.detections = <<>>,
            !.syncedToSheet = FALSE ] ]

\* The final set() of confirmAndSync, applied to the state `last` that the
\* marker commits left; `state` is the object read by get() on entry.
confirmFinalSet(state, last, id) ==
  [ last EXCEPT
      !.confirmedCount = state.confirmedCount + Len(activeDetections(state)),
      !.currentDetections = <<>>,
      !.currentSession =
        [ state.currentSession EXCEPT
            !.id = id, !.totalCount = 0, !.manualAdditions = 0,
            !.manualRemovals = 0, !.detections = <<>>,
            !.syncedToSheet = FALSE ] ]

----------------------------------------------------------------------------
(* Actions: one per handler *)

\* The motion effect of useSleepMode runs again when isActive or isSleeping
\* changed, and the handleMotion it installs starts from lastX = lastY =
\* lastZ = 0.
MotionEffect ==
  motion' = [ motion EXCEPT
                !.last = IF /\ store'.isActive = store.isActive
                            /\ store'.isSleeping = store.isSleeping
                         THEN @ ELSE ZeroSample ]

Ran(cmd, args, ret, published) ==
  /\ lastCmd' = cmd
  /\ lastArgs' = args
  /\ returned' = ret
  /\ intermediate' = published

\* VisionModeToggle.handleTemplateSelect
StartVisionMode(template) ==
  /\ store' = startVisionMode(store, template, now, uuidv4(UsedSessionIds))
  /\ Ran("startVisionMode", <<template>>, NoValue, <<>>)
  /\ MotionEffect
  /\ UNCHANGED <<now, isModelLoading, inflight, service, sheets, camera>>

\* VisionModeScreen.handleCancel
StopVisionMode ==
  /\ store' = stopVisionMode(store)
  /\ Ran("stopVisionMode", <<>>, NoValue, <<>>)
  /\ MotionEffect
  /\ UNCHANGED <<now, isModelLoading, inflight, service, sheets, camera>>

PauseVisionMode ==
  /\ store' = pauseVisionMode(store)
  /\ Ran("pauseVisionMode", <<>>, NoValue, <<>>)
  /\ MotionEffect
  /\ UNCHANGED <<now, isModelLoading, inflight, service, sheets, camera>>

\* CountDisplay "Wake Up" button
ResumeVisionMode ==
  /\ store' = resumeVisionMode(store, now)
  /\ Ran("resumeVisionMode", <<>>, NoValue, <<>>)
  /\ MotionEffect
  /\ UNCHANGED <<now, isModelLoading, inflight, service, sheets, camera>>

\* DetectionOverlay.handleOverlayClick
AddManualDetection(box) ==
  /\ Len(store.currentDetections) < MaxDetections
  /\ store.currentSession # NoSession =>
       store.currentSession.manualAdditions < MaxCorrections
  /\ store' = addManualDetection(store, box.x, box.y, box.width, box.height,
                                 uuidv4(UsedIds))
  /\ Ran("addManualDetection", <<>>, NoValue, <<>>)
  /\ MotionEffect
  /\ UNCHANGED <<now, isModelLoading, inflight, service, sheets, camera>>

\* removeDetection(detectionId) for any id, in the list or not
RemoveDetection(detectionId) ==
  /\ store.currentSession # NoSession =>
       store.currentSession.manualRemovals < MaxCorrections
  /\ store' = removeDetection(store, detectionId)
  /\ Ran("removeDetection", <<>>, NoValue, <<>>)
  /\ MotionEffect
  /\ UNCHANGED <<now, isModelLoading, inflight, service, sheets, camera>>

\* undoRemoval(detectionId) for any id, in the list or not
UndoRemoval(detectionId) ==
  /\ store' = undoRemoval(store, detectionId)
  /\ Ran("undoRemoval", <<>>, NoValue, <<>>)
  /\ MotionEffect
  /\ UNCHANGED <<now, isModelLoading, inflight, service, sheets, camera>>

\* DetectionOverlay.handleDetectionClick on a box of the overlay: undoRemoval
\* for a removed detection, removeDetection for any other.
HandleDetectionClick(detectionId) ==
  LET detection == CHOOSE d \in { store.currentDetections[i] :
                                    i \in 1..Len(store.currentDetections) } :
                     d.id = detectionId
  IN  /\ detectionId \in DetectionIds(store.currentDetections)
      /\ (~detection.boundingBox.isRemoved /\ store.currentSession # NoSession) =>
            store.currentSession.manualRemovals < MaxCorrections
      /\ IF detection.boundingBox.isRemoved
           THEN /\ store' = undoRemoval(store, detectionId)
                /\ Ran("undoRemoval", <<detectionId>>, NoValue, <<>>)
           ELSE /\ store' = removeDetection(store, detectionId)
                /\ Ran("removeDetection", <<detectionId>>, NoValue, <<>>)
      /\ MotionEffect
      /\ UNCHANGED <<now, isModelLoading, inflight, service, sheets, camera>>

AddSpatialMarker(point, detectionId) ==
  /\ store.currentSession # NoSession =>
       Len(store.currentSession.spatialMarkers) < MaxMarkers
  /\ store' = addSpatialMarker(store,
                 [ worldX |-> point.worldX, worldY |-> point.worldY,
                   worldZ |-> point.worldZ, detectionId |-> detectionId ])
  /\ Ran("addSpatialMarker", <<>>, NoValue, <<>>)
  /\ MotionEffect
  /\ UNCHANGED <<now, isModelLoading, inflight, service, sheets, camera>>

ClearSpatialMarkers ==
  /\ store' = clearSpatialMarkers(store)
  /\ Ran("clearSpatialMarkers", <<>>, NoValue, <<>>)
  /\ MotionEffect
  /\ UNCHANGED <<now, isModelLoading, inflight, service, sheets, camera>>

\* Variant that opens a session when none is active; C17 tells it from
\* ConfirmAndSync.
ConfirmAndSyncOpening(sheetId) ==
  /\ store.confirmedCount + captureCount(store) <= MaxConfirmed
  /\ IF store.currentSession = NoSession
     THEN /\ store' = startVisionMode(store, store.selectedTemplate, now,
                                      uuidv4(UsedSessionIds))
          /\ Ran("confirmAndSync", <<sheetId>>, NoValue, <<>>)
     ELSE LET state == store
              rowId == uuidv4(UsedRowIds)
              published == commitMarkers(state, activeDetections(state), 1)
              last == IF published = <<>> THEN state
                      ELSE published[Len(published)]
          IN  /\ store' = confirmFinalSet(state, last,
                                          uuidv4(UsedSessionIds))
              /\ Ran("confirmAndSync", <<sheetId>>,
                     completedSession(state, sheetId, rowId, now), published)
  /\ MotionEffect
  /\ UNCHANGED <<now, isModelLoading, inflight, service, sheets, camera>>

\* VisionModeScreen.handleSync -> confirmAndSync(activeSheet.id)
ConfirmAndSync(sheetId) ==
  /\ store.confirmedCount + captureCount(store) <= MaxConfirmed
  /\ IF store.currentSession = NoSession
     THEN /\ store' = store
          /\ Ran("confirmAndSync", <<sheetId>>, NoValue, <<>>)
     ELSE LET state == store
              rowId == uuidv4(UsedRowIds)
              published == commitMarkers(state, activeDetections(state), 1)
              last == IF published = <<>> THEN state
                      ELSE published[Len(published)]
          IN  /\ store' = confirmFinalSet(state, last,
                                          uuidv4(UsedSessionIds))
              /\ Ran("confirmAndSync", <<sheetId>>,
                     completedSession(state, sheetId, rowId, now), published)
  /\ MotionEffect
  /\ UNCHANGED <<now, isModelLoading, inflight, service, sheets, camera>>

ResetSession ==
  /\ store' = resetSession(store, uuidv4(UsedSessionIds))
  /\ Ran("resetSession", <<>>, NoValue, <<>>)
  /\ MotionEffect
  /\ UNCHANGED <<now, isModelLoading, inflight, service, sheets, camera>>

UpdateSettings(newSettings) ==
  /\ store' = updateSettings(store, newSettings)
  /\ Ran("updateSettings", <<>>, NoValue, <<>>)
  /\ MotionEffect
  /\ UNCHANGED <<now, isModelLoading, inflight, service, sheets, camera>>

----------------------------------------------------------------------------
(* Frame capture and detection (VisionModeScreen, CameraView) *)

\* The isProcessing prop VisionModeScreen hands to CameraView; the capture
\* loop runs only while it is false.
isProcessingProp(s) == s.isPaused \/ s.isSleeping

\* Pipeline results: lists of distinct boxes, each detection freshly identified.
CandidateLists ==
  { bs \in UNION { [1..n -> Boxes] : n \in 0..MaxCandidates } :
      \A i, j \in DOMAIN bs : i # j => bs[i] # bs[j] }

RECURSIVE Detections(_, _, _)
Detections(bs, i, used) ==
  IF i > Len(bs) THEN <<>>
  ELSE LET id == uuidv4(used)
       IN  << [ id |-> id,
                boundingBox |->
                  [ x |-> bs[i].x, y |-> bs[i].y, width |-> bs[i].width,
                    height |-> bs[i].height, confidence |-> 80,
                    isManuallyAdded |-> FALSE, isRemoved |-> FALSE ] ] >>
           \o Detections(bs, i + 1, used \cup {id})

RemoveAt(seq, i) == SubSeq(seq, 1, i - 1) \o SubSeq(seq, i + 1, Len(seq))

\* initModel: the first objectDetectionService.initialize() resolved, with
\* the model loaded
ModelLoaded ==
  /\ isModelLoading
  /\ service.loadPromise = "none"
  /\ isModelLoading' = FALSE
  /\ Ran("initModel", <<>>, NoValue, <<>>)
  /\ service' = [model |-> TRUE, isLoading |-> FALSE, loadPromise |-> "fulfilled",
                 loads |-> 0]
  /\ UNCHANGED <<store, now, inflight, sheets, camera, motion>>

\* Variant without the early return on isActive, isPaused and isSleeping and
\* with a capture loop that ignores its isProcessing prop; C15 tells it from
\* HandleFrameCapture.
HandleFrameCaptureUnchecked ==
  /\ ~isModelLoading
  /\ Len(inflight) < MaxInflight
  /\ store' = updateActivity(store, now)
  /\ inflight' = Append(inflight, [superseded |-> FALSE])
  /\ Ran("handleFrameCapture", <<>>, NoValue, <<>>)
  /\ MotionEffect
  /\ UNCHANGED <<now, isModelLoading, service, sheets, camera>>

\* handleFrameCapture up to the await: the capture loop delivers a frame
HandleFrameCapture ==
  /\ ~isProcessingProp(store)
  /\ store.isActive /\ ~store.isPaused /\ ~store.isSleeping /\ ~isModelLoading
  /\ Len(inflight) < MaxInflight
  /\ store' = updateActivity(store, now)
  /\ inflight' = Append(inflight, [superseded |-> FALSE])
  /\ Ran("handleFrameCapture", <<>>, NoValue, <<>>)
  /\ MotionEffect
  /\ UNCHANGED <<now, isModelLoading, service, sheets, camera>>

\* handleFrameCapture after the await: detectObjects resolved for the i-th
\* pending call and its result is handed to setDetections
DetectComplete(i, boxes) ==
  /\ i \in 1..Len(inflight)
  /\ LET detections == Detections(boxes, 1, KeptIds)
     IN  /\ store' = setDetections(store, detections)
         /\ Ran("setDetections", detections, NoValue, <<>>)
  /\ inflight' = RemoveAt([ j \in 1..Len(inflight) |->
                              IF j < i THEN [superseded |-> TRUE]
                              ELSE inflight[j] ], i)
  /\ MotionEffect
  /\ UNCHANGED <<now, isModelLoading, service, sheets, camera>>

\* handleFrameCapture after the await: detectObjects rejected (catch branch)
DetectFail(i) ==
  /\ i \in 1..Len(inflight)
  /\ inflight' = RemoveAt(inflight, i)
  /\ Ran("detectionError", <<>>, NoValue, <<>>)
  /\ UNCHANGED <<store, now, isModelLoading, service, sheets, camera, motion>>

----------------------------------------------------------------------------
(* Sleep control (useSleepMode) *)

Tick ==
  /\ now < MaxTicks * CheckIntervalMs
  /\ now' = now + CheckIntervalMs
  /\ Ran("tick", <<>>, NoValue, <<>>)
  /\ UNCHANGED <<store, isModelLoading, inflight, service, sheets, camera, motion>>

\* Variant that does not compare the elapsed time with the timeout; C12
\* tells it from CheckSleep.
CheckSleepAtOnce ==
  /\ store.isActive /\ ~store.isPaused /\ ~store.isSleeping
  /\ store' = setSleeping(store, TRUE)
  /\ Ran("checkSleep", <<>>, NoValue, <<>>)
  /\ MotionEffect
  /\ UNCHANGED <<now, isModelLoading, inflight, service, sheets, camera>>

\* checkSleep, run by the interval the effect installs while the session is
\* active, not paused and not sleeping
CheckSleep ==
  /\ store.isActive /\ ~store.isPaused /\ ~store.isSleeping
  /\ now - store.lastActivityTime >= store.settings.sleepTimeoutMs
  /\ store' = setSleeping(store, TRUE)
  /\ Ran("checkSleep", <<>>, NoValue, <<>>)
  /\ MotionEffect
  /\ UNCHANGED <<now, isModelLoading, inflight, service, sheets, camera>>

\* Variant that refreshes the timestamp and leaves isSleeping alone; C14
\* tells it from HandleActivity.
HandleActivityAsleep ==
  /\ store.isActive
  /\ store' = [store EXCEPT !.lastActivityTime = now]
  /\ Ran("handleActivity", <<[isSleeping |-> store.isSleeping]>>, NoValue, <<>>)
  /\ MotionEffect
  /\ UNCHANGED <<now, isModelLoading, inflight, service, sheets, camera>>

\* handleActivity: touchstart, touchmove, mousemove; the listeners are
\* installed while the session is active
HandleActivity ==
  /\ store.isActive
  /\ store' = updateActivity(store, now)
  /\ Ran("handleActivity", <<[isSleeping |-> store.isSleeping]>>, NoValue, <<>>)
  /\ MotionEffect
  /\ UNCHANGED <<now, isModelLoading, inflight, service, sheets, camera>>

\* wake(): setSleeping(false), then updateActivity()
Wake ==
  /\ LET s1 == setSleeping(store, FALSE)
     IN  /\ store' = updateActivity(s1, now)
         /\ Ran("wake", <<[isSleeping |-> store.isSleeping]>>, NoValue, <<s1>>)
  /\ MotionEffect
  /\ UNCHANGED <<now, isModelLoading, inflight, service, sheets, camera>>

Abs(n) == IF n < 0 THEN -n ELSE n

\* totalMovement = deltaX + deltaY + deltaZ
TotalMovement(a, b) == Abs(a.x - b.x) + Abs(a.y - b.y) + Abs(a.z - b.z)

\* handleMotion(event) for an event with this acceleration
handleMotion(s, sample, last, t) ==
  IF TotalMovement(sample, last) > MotionThreshold
  THEN updateActivity(s, t) ELSE s

\* The sensor delivers a devicemotion event during a session.  The motion
\* effect installs handleMotion only while the session is active and not
\* sleeping; with no listener the event changes nothing.
DeviceMotion(sample) ==
  /\ store.isActive
  /\ IF ~store.isSleeping
     THEN /\ store' = handleMotion(store, sample, motion.last, now)
          /\ motion' = [previous |-> sample, last |-> sample]
     ELSE /\ store' = store
          /\ motion' = [motion EXCEPT !.previous = sample]
  /\ Ran("devicemotion", <<sample>>, NoValue, <<>>)
  /\ UNCHANGED <<now, isModelLoading, inflight, service, sheets, camera>>

----------------------------------------------------------------------------

\* onDetections: a pipeline result handed to setDetections
SetDetections(boxes) ==
  /\ LET detections == Detections(boxes, 1, KeptIds)
     IN  /\ store' = setDetections(store, detections)
         /\ Ran("setDetections", detections, NoValue, <<>>)
  /\ MotionEffect
  /\ UNCHANGED <<now, isModelLoading, inflight, service, sheets, camera>>

\* The settings switch of enableDeduplication.
DedupPatches == { [enableDeduplication |-> ~store.settings.enableDeduplication] }

\* Identifiers a caller may pass to removeDetection / undoRemoval: those of
\* the transient list and one that no detection carries.
KnownIds == DetectionIds(store.currentDetections) \cup {0}

\* The session commands of the store, called in any order and in any state
\* (the store does not guard them); one template, no clock.
Next ==
  \/ \E template \in {"circles"} : StartVisionMode(template)
  \/ StopVisionMode
  \/ \E boxes \in CandidateLists : SetDetections(boxes)
  \/ \E box \in Boxes : AddManualDetection(box)
  \/ \E id \in KnownIds : RemoveDetection(id)
  \/ \E id \in KnownIds : UndoRemoval(id)
  \/ \E point \in MarkerPoints : AddSpatialMarker(point, 0)
  \/ ClearSpatialMarkers
  \/ \E sheetId \in SheetIds : ConfirmAndSync(sheetId)
  \/ ResetSession
  \/ \E newSettings \in DedupPatches : UpdateSettings(newSettings)

Spec == Init /\ [][Next]_vars

\* The capture loop, the awaited detections and the sleep timer, with the
\* commands that start, stop, pause and confirm a session.
NextPipeline ==
  \/ \E template \in Templates : StartVisionMode(template)
  \/ StopVisionMode
  \/ PauseVisionMode
  \/ ResumeVisionMode
  \/ \E sheetId \in SheetIds : ConfirmAndSync(sheetId)
  \/ \E newSettings \in SleepPatches : UpdateSettings(newSettings)
  \/ ModelLoaded
  \/ HandleFrameCapture
  \/ \E i \in 1..MaxInflight, boxes \in CandidateLists : DetectComplete(i, boxes)
  \/ \E i \in 1..MaxInflight : DetectFail(i)
  \/ Tick
  \/ CheckSleep
  \/ HandleActivity

SpecPipeline == Init /\ [][NextPipeline]_vars

\* The sleep control of useSleepMode: the clock, the periodic check, the
\* touch/pointer listeners, the motion listener and wake(), with the commands
\* that start, stop, pause and resume a session.
NextSleep ==
  \/ \E template \in {"circles"} : StartVisionMode(template)
  \/ StopVisionMode
  \/ PauseVisionMode
  \/ ResumeVisionMode
  \/ \E newSettings \in SleepPatches : UpdateSettings(newSettings)
  \/ Tick
  \/ CheckSleep
  \/ HandleActivity
  \/ \E sample \in Samples : DeviceMotion(sample)
  \/ Wake

SpecSleep == Init /\ [][NextSleep]_vars

----------------------------------------------------------------------------
(* ObjectDetectionService *)

MathMax(a, b) == IF a >= b THEN a ELSE b
MathMin(a, b) == IF a <= b THEN a ELSE b

\* calculateIoU: the quotient intersection / union, kept as its two terms
\* (`return 0` is 0 / 1).
calculateIoU(a, b) ==
  LET x1 == MathMax(a.x, b.x)
      y1 == MathMax(a.y, b.y)
      x2 == MathMin(a.x + a.width, b.x + b.width)
      y2 == MathMin(a.y + a.height, b.y + b.height)
  IN  IF x2 < x1 \/ y2 < y1 THEN [intersection |-> 0, union |-> 1]
      ELSE LET intersection == (x2 - x1) * (y2 - y1)
               areaA == a.width * a.height
               areaB == b.width * b.height
           IN  [ intersection |-> intersection,
                 union |-> areaA + areaB - intersection ]

\* iou > iouThreshold, the threshold in percent
IoUExceeds(iou, iouThreshold) ==
  100 * iou.intersection > iouThreshold * iou.union

\* shapes.sort((a, b) => b.confidence - a.confidence): a stable sort, so a
\* shape comes after the shapes of higher confidence and after the shapes of
\* equal confidence that stood before it.
sortByConfidence(shapes) ==
  LET n == Len(shapes)
      place == [ i \in 1..n |->
                   1 + Cardinality({ j \in 1..n :
                         \/ shapes[j].confidence > shapes[i].confidence
                         \/ /\ shapes[j].confidence = shapes[i].confidence
                            /\ j < i }) ]
  IN  [ k \in 1..n |-> shapes[CHOOSE i \in 1..n : place[i] = k] ]

\* The loop over the sorted shapes from index i on, with `keep` as built so far.
RECURSIVE keepLoop(_, _, _, _)
keepLoop(shapes, iouThreshold, i, keep) ==
  IF i > Len(shapes) THEN keep
  ELSE LET shape == shapes[i]
           shouldKeep == \A k \in 1..Len(keep) :
                           ~IoUExceeds(calculateIoU(shape, keep[k]), iouThreshold)
       IN  keepLoop(shapes, iouThreshold, i + 1,
                    IF shouldKeep THEN Append(keep, shape) ELSE keep)

\* Variant whose loop compares a shape with the first kept shape only; C23
\* tells it from nonMaxSuppression.
RECURSIVE keepLoopAgainstFirst(_, _, _, _)
keepLoopAgainstFirst(shapes, iouThreshold, i, keep) ==
  IF i > Len(shapes) THEN keep
  ELSE LET shape == shapes[i]
           shouldKeep == \/ keep = <<>>
                         \/ ~IoUExceeds(calculateIoU(shape, keep[1]), iouThreshold)
       IN  keepLoopAgainstFirst(shapes, iouThreshold, i + 1,
                                IF shouldKeep THEN Append(keep, shape) ELSE keep)

nonMaxSuppressionAgainstFirst(shapes, iouThreshold) ==
  IF Len(shapes) = 0 THEN <<>>
  ELSE keepLoopAgainstFirst(sortByConfidence(shapes), iouThreshold, 1, <<>>)

\* Variant that does not sort; C24 tells it from nonMaxSuppression.
nonMaxSuppressionInOrder(shapes, iouThreshold) ==
  IF Len(shapes) = 0 THEN <<>>
  ELSE keepLoop(shapes, iouThreshold, 1, <<>>)

nonMaxSuppression(shapes, iouThreshold) ==
  IF Len(shapes) = 0 THEN <<>>
  ELSE keepLoop(sortByConfidence(shapes), iouThreshold, 1, <<>>)

\* The shapes processImageForShapes pushes before it suppresses: one per
\* contour whose fit is not null and has confidence > 0.5, for the circles
\* and the rectangles template; none for any other template.
fittedShapes(imageData, template) ==
  IF template \in {"circles", "rectangles"}
    THEN SelectSeq(imageData.fits, LAMBDA fit : fit.confidence > FitConfidenceGate)
    ELSE <<>>

processImageForShapes(imageData, template) ==
  nonMaxSuppression(fittedShapes(imageData, template), IouThreshold)

\* The .map() of detectShapes / detectWithCocoSsd: one detection per entry
\* (a box with confidence and label), each with a new id.
RECURSIVE toDetections(_, _, _)
toDetections(entries, i, used) ==
  IF i > Len(entries) THEN <<>>
  ELSE LET id == uuidv4(used)
       IN  << [ id |-> id,
                boundingBox |-> [ x |-> entries[i].x, y |-> entries[i].y,
                                  width |-> entries[i].width,
                                  height |-> entries[i].height ],
                confidence |-> entries[i].confidence,
                label |-> entries[i].label,
                isManuallyAdded |-> FALSE,
                isRemoved |-> FALSE ] >>
           \o toDetections(entries, i + 1, used \cup {id})

\* A promise that resolved to a detection list, and one that rejected.
Resolved(detections) == [detections |-> detections]
Rejected(message) == [error |-> message]

detectShapes(imageData, template, confidenceThreshold, used) ==
  LET shapes == processImageForShapes(imageData, template)
      passed == SelectSeq(shapes, LAMBDA shape : shape.confidence >= confidenceThreshold)
      label == IF template = "circles" THEN "pipe/circle" ELSE "box/rectangle"
      entries == [ i \in 1..Len(passed) |->
                     [ x |-> passed[i].x, y |-> passed[i].y,
                       width |-> passed[i].width, height |-> passed[i].height,
                       confidence |-> passed[i].confidence, label |-> label ] ]
  IN  Resolved(toDetections(entries, 1, used))

\* The buffer holds 4 bytes for each of the width x height pixels, as the
\* loop over data[i * 4] .. data[i * 4 + 2] reads it and as every ImageData
\* of the platform has it.
WellFormed(imageData) ==
  imageData.length = imageData.width * imageData.height * 4

\* ctx.putImageData throws a TypeError for an object that is no ImageData of
\* the platform, which an object with another buffer length cannot be.
detectWithCocoSsd(srv, imageData, confidenceThreshold, used) ==
  IF ~srv.model THEN Rejected("Model not initialized")
  ELSE IF ~WellFormed(imageData) THEN Rejected("TypeError")
  ELSE LET passed == SelectSeq(imageData.predictions,
                               LAMBDA pred : pred.score >= confidenceThreshold)
           entries == [ i \in 1..Len(passed) |->
                          [ x |-> passed[i].bbox[1], y |-> passed[i].bbox[2],
                            width |-> passed[i].bbox[3], height |-> passed[i].bbox[4],
                            confidence |-> passed[i].score,
                            label |-> passed[i].class ] ]
       IN  Resolved(toDetections(entries, 1, used))

\* Variant that asks the model whenever one is loaded, whatever the
\* template; C26 tells it from detectObjects.
detectObjectsModelFirst(srv, imageData, template, confidenceThreshold, used) ==
  IF srv.model
    THEN detectWithCocoSsd(srv, imageData, confidenceThreshold, used)
    ELSE detectShapes(imageData, template, confidenceThreshold, used)

detectObjects(srv, imageData, template, confidenceThreshold, used) ==
  IF template = "custom" /\ srv.model
    THEN detectWithCocoSsd(srv, imageData, confidenceThreshold, used)
    ELSE detectShapes(imageData, template, confidenceThreshold, used)

\* isReady()
isReady(srv) == srv.model /\ ~srv.isLoading

\* Ids of the detections the previous detectObjects call resolved to.
ResultIds ==
  IF "detections" \in DOMAIN returned THEN DetectionIds(returned.detections)
  ELSE {}

\* Variant that starts _loadModel whenever there is no model, whatever
\* loadPromise holds; C40 tells it from Initialize.
InitializeWithoutPromise ==
  /\ service' =
       IF service.model THEN service
       ELSE [service EXCEPT !.loadPromise = "pending", !.isLoading = TRUE,
                            !.loads = @ + 1]
  /\ Ran("initialize", <<>>,
         [promise |-> IF service.model THEN "fulfilled" ELSE service'.loadPromise],
         <<>>)
  /\ UNCHANGED <<store, now, isModelLoading, inflight, sheets, camera, motion>>

\* objectDetectionService.initialize(): returns at once with a model, returns
\* the stored promise if there is one, and otherwise starts _loadModel, which
\* sets isLoading before its first await.  `loads` counts the _loadModel
\* calls that have started and not settled.
Initialize ==
  /\ service' =
       IF service.model \/ service.loadPromise # "none" THEN service
       ELSE [service EXCEPT !.loadPromise = "pending", !.isLoading = TRUE,
                            !.loads = @ + 1]
  /\ Ran("initialize", <<>>,
         [promise |-> IF service.model THEN "fulfilled" ELSE service'.loadPromise],
         <<>>)
  /\ UNCHANGED <<store, now, isModelLoading, inflight, sheets, camera, motion>>

\* _loadModel: cocoSsd.load resolved
LoadResolve ==
  /\ service.loadPromise = "pending"
  /\ service' = [model |-> TRUE, isLoading |-> FALSE, loadPromise |-> "fulfilled",
                 loads |-> service.loads - 1]
  /\ Ran("_loadModel", <<>>, [promise |-> "fulfilled"], <<>>)
  /\ UNCHANGED <<store, now, isModelLoading, inflight, sheets, camera, motion>>

\* _loadModel: setBackend, ready or load rejected; catch rethrows, finally
\* clears isLoading
LoadReject ==
  /\ service.loadPromise = "pending"
  /\ service' = [service EXCEPT !.isLoading = FALSE, !.loadPromise = "rejected",
                                !.loads = @ - 1]
  /\ Ran("_loadModel", <<>>, [promise |-> "rejected"], <<>>)
  /\ UNCHANGED <<store, now, isModelLoading, inflight, sheets, camera, motion>>

\* dispose()
Dispose ==
  /\ service' = [service EXCEPT !.model = FALSE]
  /\ Ran("dispose", <<>>, NoValue, <<>>)
  /\ UNCHANGED <<store, now, isModelLoading, inflight, sheets, camera, motion>>

\* One detectObjects call from start to settlement, with the arguments
\* handleFrameCapture passes: the captured frame, selectedTemplate and
\* settings.confidenceThreshold.  `intermediate` keeps what the shape path
\* handed to nonMaxSuppression and what it got back.
DetectObjects ==
  LET template == store.selectedTemplate
      confidenceThreshold == store.settings.confidenceThreshold
  IN  /\ Ran("detectObjects", <<camera, template, confidenceThreshold>>,
             detectObjects(service, camera, template, confidenceThreshold, ResultIds),
             IF template = "custom" /\ service.model THEN <<>>
             ELSE << [ shapes |-> fittedShapes(camera, template),
                       keep |-> processImageForShapes(camera, template) ] >>)
      /\ UNCHANGED <<store, now, isModelLoading, inflight, service, sheets, camera, motion>>

\* A session of the given template with the given threshold setting, in front
\* of a camera that shows the given frame.
InitDetect ==
  /\ \E template \in ObjectTemplates, confidenceThreshold \in Thresholds :
       store = updateSettings(startVisionMode(InitialState, template, 0, 1),
                              [confidenceThreshold |-> confidenceThreshold])
  /\ camera \in Frames
  /\ now = 0
  /\ isModelLoading = TRUE
  /\ inflight = <<>>
  /\ service = [model |-> FALSE, isLoading |-> FALSE, loadPromise |-> "none", loads |-> 0]
  /\ sheets = [ activeSheet |-> "sheet-1",
                rows |-> [sh \in SheetIds |-> <<>>],
                sessions |-> <<>>,
                calls |-> <<>> ]
  /\ motion = [previous |-> ZeroSample, last |-> ZeroSample]
  /\ lastCmd = "init"
  /\ lastArgs = <<>>
  /\ returned = NoValue
  /\ intermediate = <<>>

NextDetect ==
  \/ Initialize
  \/ LoadResolve
  \/ LoadReject
  \/ Dispose
  \/ DetectObjects

SpecDetect == InitDetect /\ [][NextDetect]_vars

----------------------------------------------------------------------------
(* useSheetStore and DatabaseService *)

\* DatabaseService.addRowToSheet on a sheet the database holds: a row with a
\* new id is pushed onto the rows of that sheet.
addRowToSheet(sh, sheetId, values, countSessionId, rowId) ==
  [ sh EXCEPT !.rows[sheetId] =
      Append(@, [ id |-> rowId, values |-> values,
                  countSessionId |-> countSessionId ]) ]

\* DatabaseService.saveSession: db.put('sessions', session), keyed by id
saveSession(sh, session) ==
  [ sh EXCEPT !.sessions =
      Append(SelectSeq(@, LAMBDA saved : saved.id # session.id), session) ]

\* The values useSheetStore.addCountToSheet builds for the row of a session
\* on a sheet with the default columns.
countValues(session) ==
  [ quantity |-> session.totalCount,
    name |-> IF session.template = "circles" THEN "Pipes (AI Count)"
             ELSE IF session.template = "rectangles" THEN "Boxes (AI Count)"
                    ELSE "Items (AI Count)" ]

\* useSheetStore.addCountToSheet(session) with an active sheet that has the
\* default columns: the quantity and the text column get their values, the
\* row goes to the active sheet, the session is saved as it was passed in.
addCountToSheet(sh, session, rowId) ==
  saveSession(addRowToSheet(sh, sh.activeSheet, countValues(session),
                            session.id, rowId),
              session)

RowCount == Len(sheets.rows["sheet-1"]) + Len(sheets.rows["sheet-2"])

\* useSheetStore.setActiveSheet
SetActiveSheet(sheetId) ==
  /\ sheets' = [sheets EXCEPT !.activeSheet = sheetId]
  /\ Ran("setActiveSheet", <<sheetId>>, NoValue, <<>>)
  /\ UNCHANGED <<store, now, isModelLoading, inflight, service, camera, motion>>

\* VisionModeScreen.handleSync: confirmAndSync(activeSheet.id) and, if it
\* returned a session, addCountToSheet(session) to its end.  `lastArgs` is
\* the session passed on, `returned` the row addCountToSheet returns.
HandleSync ==
  /\ store.confirmedCount + captureCount(store) <= MaxConfirmed
  /\ RowCount < MaxRows
  /\ IF store.currentSession = NoSession
     THEN /\ store' = store
          /\ sheets' = sheets
          /\ Ran("confirmAndSync", <<sheets.activeSheet>>, NoValue, <<>>)
     ELSE LET state == store
              session == completedSession(state, sheets.activeSheet,
                                          uuidv4(UsedRowIds), now)
              rowId == uuidv4(UsedRowIds \cup {session.rowId})
              published == commitMarkers(state, activeDetections(state), 1)
              last == IF published = <<>> THEN state
                      ELSE published[Len(published)]
              saved == addCountToSheet(sheets, session, rowId)
          IN  /\ store' = confirmFinalSet(state, last, uuidv4(UsedSessionIds))
              /\ sheets' = saved
              /\ Ran("addCountToSheet", <<session>>,
                     saved.rows[sheets.activeSheet][Len(saved.rows[sheets.activeSheet])],
                     published)
  /\ MotionEffect
  /\ UNCHANGED <<now, isModelLoading, inflight, service, camera>>

\* The overlay of a session: results arrive, boxes are added by hand and
\* clicked, the session is paused and resumed while the clock runs.
NextOverlay ==
  \/ \E template \in {"circles"} : StartVisionMode(template)
  \/ StopVisionMode
  \/ PauseVisionMode
  \/ ResumeVisionMode
  \/ Tick
  \/ \E boxes \in CandidateLists : SetDetections(boxes)
  \/ \E box \in Boxes : AddManualDetection(box)
  \/ \E id \in DetectionIds(store.currentDetections) : HandleDetectionClick(id)

SpecOverlay == Init /\ [][NextOverlay]_vars

\* Counting by hand and syncing to either sheet.
NextSync ==
  \/ \E template \in {"circles"} : StartVisionMode(template)
  \/ \E box \in Boxes : AddManualDetection(box)
  \/ \E id \in KnownIds : RemoveDetection(id)
  \/ \E sheetId \in SheetIds : SetActiveSheet(sheetId)
  \/ HandleSync

SpecSync == Init /\ [][NextSync]_vars

\* The awaits of a sync.  addCountToSheet(session) runs up to the
\* `await this.getSheet(sheetId)` of addRowToSheet, goes on when the read
\* answers (the row is pushed onto the copy that was read and db.put is
\* issued), goes on when the put answers (saveSession is issued) and ends
\* when that answers.  `sheets.calls` holds the calls that are under way, in
\* the order they began: the session, the id of the sheet that was active,
\* the await the call stands at and the rows of its copy of the sheet.
SyncCall(session, sheetId) ==
  [ session |-> session, sheetId |-> sheetId, pc |-> "getSheet", rows |-> <<>> ]

RemoveCall(calls, i) == SubSeq(calls, 1, i - 1) \o SubSeq(calls, i + 1, Len(calls))

PendingRows == Cardinality({ i \in 1..Len(sheets.calls) : sheets.calls[i].pc # "saveSession" })

\* The sync button of CountDisplay (disabled while no detection is active)
\* -> VisionModeScreen.handleSync: confirmAndSync(activeSheet.id) and, if it
\* returned a session, addCountToSheet(session) up to its first await.
BeginSync ==
  /\ captureCount(store) > 0
  /\ store.confirmedCount + captureCount(store) <= MaxConfirmed
  /\ Len(sheets.calls) < MaxSyncs
  /\ RowCount + PendingRows < MaxRows
  /\ IF store.currentSession = NoSession
     THEN /\ store' = store
          /\ sheets' = sheets
          /\ Ran("confirmAndSync", <<sheets.activeSheet>>, NoValue, <<>>)
     ELSE LET state == store
              session == completedSession(state, sheets.activeSheet,
                                          uuidv4(UsedRowIds), now)
              published == commitMarkers(state, activeDetections(state), 1)
              last == IF published = <<>> THEN state
                      ELSE published[Len(published)]
          IN  /\ store' = confirmFinalSet(state, last, uuidv4(UsedSessionIds))
              /\ sheets' = [ sheets EXCEPT !.calls =
                               Append(@, SyncCall(session, sheets.activeSheet)) ]
              /\ Ran("confirmAndSync", <<sheets.activeSheet>>, session, published)
  /\ MotionEffect
  /\ UNCHANGED <<now, isModelLoading, inflight, service, camera>>

\* addRowToSheet after `await this.getSheet(sheetId)`: the call holds a copy
\* of the stored sheet, pushes a row with a new id onto the copy and issues
\* updateSheet(sheet).
SheetRead(i) ==
  /\ sheets.calls[i].pc = "getSheet"
  /\ LET call == sheets.calls[i]
         row == [ id |-> uuidv4(UsedRowIds), values |-> countValues(call.session),
                  countSessionId |-> call.session.id ]
     IN  /\ sheets' = [ sheets EXCEPT
                          !.calls[i].pc = "updateSheet",
                          !.calls[i].rows = Append(sheets.rows[call.sheetId], row) ]
         /\ Ran("getSheet", <<call.sheetId>>, NoValue, <<>>)
  /\ UNCHANGED <<store, now, isModelLoading, inflight, service, camera, motion>>

\* updateSheet: db.put('sheets', sheet) stores the copy of the call in place
\* of the stored sheet; addRowToSheet returns the row and addCountToSheet
\* issues saveSession(session).
SheetWritten(i) ==
  /\ sheets.calls[i].pc = "updateSheet"
  /\ LET call == sheets.calls[i]
     IN  /\ sheets' = [ sheets EXCEPT
                          !.rows[call.sheetId] = call.rows,
                          !.calls[i].pc = "saveSession" ]
         /\ Ran("addRowToSheet", <<call.session>>, call.rows[Len(call.rows)], <<>>)
  /\ UNCHANGED <<store, now, isModelLoading, inflight, service, camera, motion>>

\* saveSession answers: the session is stored, the active sheet is read
\* again and addCountToSheet returns the row; handleSync shows the success.
SessionSaved(i) ==
  /\ sheets.calls[i].pc = "saveSession"
  /\ LET call == sheets.calls[i]
     IN  /\ sheets' = [ saveSession(sheets, call.session) EXCEPT
                          !.calls = RemoveCall(@, i) ]
         /\ Ran("addCountToSheet", <<call.session>>, call.rows[Len(call.rows)], <<>>)
  /\ UNCHANGED <<store, now, isModelLoading, inflight, service, camera, motion>>

\* A request to the database fails (db.put rejects): addCountToSheet rejects
\* at the await it stands at, and the catch of handleSync logs the error.
PersistFailed(i) ==
  /\ sheets.calls[i].pc \in {"updateSheet", "saveSession"}
  /\ sheets' = [ sheets EXCEPT !.calls = RemoveCall(@, i) ]
  /\ Ran("handleSync: catch", <<sheets.calls[i].session>>, NoValue, <<>>)
  /\ UNCHANGED <<store, now, isModelLoading, inflight, service, camera, motion>>

\* Counting by hand and syncing to one sheet, with the awaits of the syncs
\* answering in any order.
NextSyncSteps ==
  \/ \E template \in {"circles"} : StartVisionMode(template)
  \/ \E box \in {Box(0, 0, 20, 20)} : AddManualDetection(box)
  \/ BeginSync
  \/ \E i \in 1..Len(sheets.calls) : SheetRead(i)
  \/ \E i \in 1..Len(sheets.calls) : SheetWritten(i)
  \/ \E i \in 1..Len(sheets.calls) : SessionSaved(i)
  \/ \E i \in 1..Len(sheets.calls) : PersistFailed(i)

SpecSyncSteps == Init /\ [][NextSyncSteps]_vars

----------------------------------------------------------------------------
(* Properties *)

\* The sub-sequence of seq at the indexes idx, in the order of seq.
RECURSIVE Pick(_, _, _)
Pick(seq, idx, i) ==
  IF i > Len(seq) THEN <<>>
  ELSE (IF i \in idx THEN <<seq[i]>> ELSE <<>>) \o Pick(seq, idx, i + 1)

NotRemoved(dets) == { i \in 1..Len(dets) : dets[i].boundingBox.isRemoved = FALSE }

ManualIn(dets) == { i \in 1..Len(dets) : dets[i].boundingBox.isManuallyAdded }

\* Euclidean distance between (x, y, z) and marker m strictly below thr.
Within(x, y, z, m, thr) ==
  LET dx == x - m.worldX
      dy == y - m.worldY
      dz == z - m.worldZ
  IN  thr > 0 /\ dx * dx + dy * dy + dz * dz + 1 <= thr * thr

ConfirmStep == lastCmd' = "confirmAndSync" /\ store.currentSession # NoSession

\* C1: a confirm with an active session returns a snapshot whose totalCount
\* is the number of transient detections that are not removed at that
\* instant and whose detections are exactly those, whatever manualAdditions,
\* manualRemovals and the history are.
C1_ConfirmCountsNotRemoved ==
  [][ ConfirmStep =>
        /\ returned' # NoValue
        /\ returned'.totalCount = Cardinality(NotRemoved(store.currentDetections))
        /\ returned'.detections =
             Pick(store.currentDetections, NotRemoved(store.currentDetections), 1)
    ]_vars

\* A snapshot of one detection taken after one manual addition and one removal.
C1_Witness ==
  /\ lastCmd = "confirmAndSync"
  /\ returned # NoValue
  /\ returned.totalCount = 1
  /\ returned.manualAdditions = 1
  /\ returned.manualRemovals = 1

\* C2: after a confirm of k non-removed detections the marker list of the
\* active session is the list before the confirm followed by one marker per
\* confirmed detection, at the centre of its box and carrying its id.
C2_ConfirmAppendsMarkers ==
  [][ ConfirmStep =>
        LET confirmed == Pick(store.currentDetections,
                              NotRemoved(store.currentDetections), 1)
        IN  store'.currentSession.spatialMarkers =
              store.currentSession.spatialMarkers \o
                [ i \in 1..Len(confirmed) |->
                    [ worldX |-> confirmed[i].boundingBox.x
                                   + confirmed[i].boundingBox.width \div 2,
                      worldY |-> confirmed[i].boundingBox.y
                                   + confirmed[i].boundingBox.height \div 2,
                      worldZ |-> 0,
                      detectionId |-> confirmed[i].id ] ]
    ]_vars

\* C3: with enableDeduplication true, the frame applied right after a confirm
\* keeps no candidate whose centre is closer than the threshold to the centre
\* of a detection that confirm counted.
C3_NoRecountAfterConfirm ==
  [][ ( /\ lastCmd = "confirmAndSync" /\ returned # NoValue
        /\ lastCmd' = "setDetections"
        /\ store.settings.enableDeduplication )
      => \A i \in 1..Len(store'.currentDetections) :
           \A j \in 1..Len(returned.detections) :
             ~Within(centerX(store'.currentDetections[i]),
                     centerY(store'.currentDetections[i]), 0,
                     [ worldX |-> centerX(returned.detections[j]),
                       worldY |-> centerY(returned.detections[j]),
                       worldZ |-> 0 ],
                     store.settings.deduplicationDistanceThreshold)
    ]_vars

\* Points at which isDuplicate is probed: the box centres, the marker points
\* and points off the plane, at distances 0, 40, 50 and 60 from them.
ProbePoints ==
  MarkerPoints \cup
  { Point(10, 10, 40), Point(10, 10, 50), Point(40, 50, 0), Point(70, 10, 60),
    Point(30, 10, 0), Point(20, 10, 0) }

\* C4: isDuplicate is true iff a session is active and one of its markers is
\* at Euclidean distance strictly below the threshold; a point at exactly the
\* threshold from its nearest marker is not a duplicate.
C4_IsDuplicateStrict ==
  \A p \in ProbePoints :
    isDuplicate(store, p.worldX, p.worldY, p.worldZ)
      <=> ( /\ store.currentSession # NoSession
            /\ \E i \in 1..Len(store.currentSession.spatialMarkers) :
                 Within(p.worldX, p.worldY, p.worldZ,
                        store.currentSession.spatialMarkers[i],
                        store.settings.deduplicationDistanceThreshold) )

\* A session whose only marker is (10,10,0): (10,10,40) is a duplicate,
\* (40,50,0) and (10,10,50), at distance exactly 50, are not.
C4_Witness ==
  /\ store.currentSession # NoSession
  /\ Len(store.currentSession.spatialMarkers) = 1
  /\ store.currentSession.spatialMarkers[1].worldX = 10
  /\ isDuplicate(store, 10, 10, 40)
  /\ ~isDuplicate(store, 40, 50, 0)
  /\ ~isDuplicate(store, 10, 10, 50)

\* C5: a frame replaces the transient list by the candidates that are not
\* duplicates (all candidates when enableDeduplication is false), in their
\* order; nothing of the previous list is kept.
C5_FrameReplacesList ==
  [][ lastCmd' = "setDetections" =>
        LET candidates == lastArgs'
            kept == { i \in 1..Len(candidates) :
                        \/ ~store.settings.enableDeduplication
                        \/ ~isDuplicate(store,
                              candidates[i].boundingBox.x
                                + candidates[i].boundingBox.width \div 2,
                              candidates[i].boundingBox.y
                                + candidates[i].boundingBox.height \div 2, 0) }
        IN  store'.currentDetections = Pick(candidates, kept, 1)
    ]_vars

\* A frame of two candidates of which the filter dropped one, in a session
\* with a manual addition that is no longer in the list.
C5_Witness ==
  /\ lastCmd = "setDetections"
  /\ store.settings.enableDeduplication
  /\ Len(lastArgs) = 2
  /\ Len(store.currentDetections) = 1
  /\ store.currentSession # NoSession
  /\ store.currentSession.manualAdditions = 1
  /\ ManualIn(store.currentDetections) = {}

\* C6: the operator's additions reach the next confirm whatever frames come
\* in between: a frame applied during a session does not lower the number of
\* manually added detections that confirmAndSync would count.
C6_ManualAdditionsReachConfirm ==
  [][ (lastCmd' = "setDetections" /\ store.currentSession # NoSession)
        => Cardinality(ManualIn(activeDetections(store')))
             >= Cardinality(ManualIn(activeDetections(store))) ]_vars

\* C7: a detection result that completes while the session is paused or
\* sleeping does not change the transient list.
C7_NoApplyWhilePausedOrSleeping ==
  [][ (lastCmd' = "setDetections" /\ (store.isPaused \/ store.isSleeping))
        => store'.currentDetections = store.currentDetections ]_vars

\* C8: while no session is active the transient list is empty and there is
\* no session: a result in flight at the stop is never applied.
C8_InactiveStaysEmpty ==
  ~store.isActive =>
    store.currentDetections = <<>> /\ store.currentSession = NoSession

\* C9: at most one detectObjects call is in flight.
C9_OneInvocationInFlight == Len(inflight) <= 1

\* C10: every state a command publishes is the state before the command or
\* the state after it.
C10_CommandsAtomic ==
  [][ \A i \in 1..Len(intermediate') :
        intermediate'[i] = store \/ intermediate'[i] = store' ]_vars

----------------------------------------------------------------------------
(* Sleep control *)

SleepDue(s, t) == t - s.lastActivityTime >= s.settings.sleepTimeoutMs

\* C11: while the session is running and frames keep arriving, sleep that is
\* due (sleepTimeoutMs elapsed with no touch, pointer or motion signal) stays
\* due until the periodic check: a delivered frame does not put it off.
C11_FramesDoNotPostponeSleep ==
  [][ (lastCmd' = "handleFrameCapture" /\ SleepDue(store, now))
        => SleepDue(store', now') ]_vars

\* C12: isSleeping turns from false to true only in a state with an active,
\* not paused session in which at least sleepTimeoutMs have passed since the
\* last activity; right after an activity event no time has passed.
C12_SleepOnlyAfterTimeout ==
  [][ /\ (~store.isSleeping /\ store'.isSleeping)
          => /\ store.isActive /\ ~store.isPaused
             /\ now - store.lastActivityTime >= store.settings.sleepTimeoutMs
      /\ lastCmd' \in {"handleActivity", "wake"}
          => store'.lastActivityTime = now'
    ]_vars

\* The check put the session to sleep one timeout after an activity at 1 s.
C12_Witness ==
  /\ lastCmd = "checkSleep"
  /\ store.isSleeping
  /\ store.lastActivityTime = CheckIntervalMs
  /\ now = store.lastActivityTime + store.settings.sleepTimeoutMs

\* C13: in every active state, sleeping included, a motion sample whose
\* summed absolute delta to the previous sample is above 10 sets
\* lastActivityTime to the current time and clears isSleeping; a sample with
\* a delta of 10 or less changes neither.
C13_MotionWakes ==
  [][ (lastCmd' = "devicemotion" /\ store.isActive)
        => IF TotalMovement(lastArgs'[1], motion.previous) > 10
           THEN store'.lastActivityTime = now /\ ~store'.isSleeping
           ELSE /\ store'.lastActivityTime = store.lastActivityTime
                /\ store'.isSleeping = store.isSleeping
    ]_vars

\* C14: in every active state, sleeping included, a touch/pointer signal and
\* a call of wake() each leave isSleeping false and lastActivityTime equal to
\* the current time.
C14_ActivityWakes ==
  [][ (lastCmd' \in {"handleActivity", "wake"} /\ store.isActive)
        => ~store'.isSleeping /\ store'.lastActivityTime = now' ]_vars

\* A touch/pointer signal that found the session sleeping, later than the
\* activity before it.
C14_Witness ==
  /\ lastCmd = "handleActivity"
  /\ lastArgs = <<[isSleeping |-> TRUE]>>
  /\ store.isActive
  /\ ~store.isSleeping
  /\ now > 0
  /\ store.lastActivityTime = now

----------------------------------------------------------------------------
(* Session commands *)

\* C15: detectObjects is entered only with isActive true, isPaused false and
\* isSleeping false in the store.
C15_NoInvocationUnlessRunning ==
  [][ lastCmd' = "handleFrameCapture"
        => store.isActive /\ ~store.isPaused /\ ~store.isSleeping ]_vars

\* A second invocation entered after the clock has advanced, with the short
\* sleep timeout set.
C15_Witness ==
  /\ lastCmd = "handleFrameCapture"
  /\ Len(inflight) = 2
  /\ now > 0
  /\ store.settings.sleepTimeoutMs = CheckIntervalMs
  /\ store.isActive /\ ~store.isPaused /\ ~store.isSleeping

SessionCommands ==
  { "pauseVisionMode", "resumeVisionMode", "setDetections", "addManualDetection",
    "removeDetection", "undoRemoval", "confirmAndSync", "stopVisionMode" }

\* C16: with no active session each of pause, resume, onDetections,
\* addManual, remove, undo, confirm and stop leaves isActive, isPaused,
\* isSleeping, the transient list, confirmedCount, lastActivityTime and the
\* session unchanged.
C16_NoSessionCommandsNoOp ==
  [][ (store.currentSession = NoSession /\ lastCmd' \in SessionCommands)
        => /\ store'.isActive = store.isActive
           /\ store'.isPaused = store.isPaused
           /\ store'.isSleeping = store.isSleeping
           /\ store'.currentDetections = store.currentDetections
           /\ store'.confirmedCount = store.confirmedCount
           /\ store'.lastActivityTime = store.lastActivityTime
           /\ store'.currentSession = store.currentSession
    ]_vars

\* C17: confirm with no active session returns null, publishes nothing and
\* changes nothing (no snapshot, no marker), and no command other than start
\* makes a session out of a missing one.
C17_ConfirmWithoutSession ==
  [][ /\ (lastCmd' = "confirmAndSync" /\ store.currentSession = NoSession)
          => returned' = NoValue /\ intermediate' = <<>> /\ store' = store
      /\ (store.currentSession = NoSession /\ lastCmd' # "startVisionMode")
          => store'.currentSession = NoSession
    ]_vars

\* A confirm that ran with no session while the transient list held a
\* detection.
C17_Witness ==
  /\ lastCmd = "confirmAndSync"
  /\ lastArgs = <<"sheet-1">>
  /\ returned = NoValue
  /\ store.currentSession = NoSession
  /\ ~store.isActive
  /\ Len(store.currentDetections) >= 1

\* C18: after a confirm that returns a snapshot the system is still active,
\* the transient list is empty and the session is a fresh one: same template,
\* another id, totalCount = manualAdditions = manualRemovals = 0, no
\* detections, syncedToSheet false; the snapshot has endTime set,
\* syncedToSheet true and the given sheetId.
C18_ConfirmStartsFreshSession ==
  [][ (lastCmd' = "confirmAndSync" /\ returned' # NoValue)
        => /\ store'.isActive
           /\ store'.currentDetections = <<>>
           /\ store'.currentSession # NoSession
           /\ store'.currentSession.template = store.currentSession.template
           /\ store'.currentSession.template = returned'.template
           /\ store'.currentSession.id # returned'.id
           /\ store'.currentSession.totalCount = 0
           /\ store'.currentSession.manualAdditions = 0
           /\ store'.currentSession.manualRemovals = 0
           /\ store'.currentSession.detections = <<>>
           /\ store'.currentSession.syncedToSheet = FALSE
           /\ returned'.id = store.currentSession.id
           /\ returned'.endTime = now
           /\ returned'.syncedToSheet = TRUE
           /\ <<returned'.sheetId>> = lastArgs'
    ]_vars

\* A snapshot of a "custom" session with one detection, synced to the second
\* sheet after the clock has advanced.
C18_Witness ==
  /\ lastCmd = "confirmAndSync"
  /\ returned # NoValue
  /\ returned.template = "custom"
  /\ returned.totalCount = 1
  /\ returned.sheetId = "sheet-2"
  /\ returned.endTime > 0
  /\ store.currentSession # NoSession
  /\ store.currentSession.template = "custom"

\* C19: a confirm that returns a snapshot adds the snapshot's totalCount to
\* confirmedCount; start, stop and resetSession set it to 0; no other command
\* changes it.  Hence confirmedCount is the sum of the totalCounts returned
\* since the last start, stop or resetSession.
C19_ConfirmedCountIsSumOfSnapshots ==
  [][ store'.confirmedCount =
        IF lastCmd' = "confirmAndSync" /\ returned' # NoValue
        THEN store.confirmedCount + returned'.totalCount
        ELSE IF lastCmd' \in {"startVisionMode", "stopVisionMode", "resetSession"}
        THEN 0
        ELSE store.confirmedCount
    ]_vars

\* The second confirm of a session: one detection counted on top of one, with
\* a removed detection left out.
C19_Witness ==
  /\ lastCmd = "confirmAndSync"
  /\ returned # NoValue
  /\ returned.totalCount = 1
  /\ returned.manualRemovals = 1
  /\ store.confirmedCount = 2

\* C20: after stop/cancel the system is inactive with no session, an empty
\* transient list, confirmedCount 0, isPaused false and isSleeping false; the
\* command returns no snapshot and publishes no other state (no marker).
C20_StopDiscards ==
  lastCmd = "stopVisionMode" =>
    /\ ~store.isActive
    /\ store.currentSession = NoSession
    /\ store.currentDetections = <<>>
    /\ store.confirmedCount = 0
    /\ ~store.isPaused
    /\ ~store.isSleeping
    /\ returned = NoValue
    /\ intermediate = <<>>

\* A stop that came while a detection was in flight, after the clock advanced.
C20_Witness ==
  /\ lastCmd = "stopVisionMode"
  /\ Len(inflight) >= 1
  /\ now > 0
  /\ ~store.isActive

\* C21: start(template), from any state, leads to Running: isActive true,
\* isPaused and isSleeping false, empty transient list, confirmedCount 0 and
\* a newly allocated session with that template, all counters 0, no
\* detections, no markers and syncedToSheet false.
C21_StartLeadsToRunning ==
  [][ lastCmd' = "startVisionMode" =>
        /\ store'.isActive /\ ~store'.isPaused /\ ~store'.isSleeping
        /\ store'.currentDetections = <<>>
        /\ store'.confirmedCount = 0
        /\ store'.currentSession # NoSession
        /\ <<store'.currentSession.template>> = lastArgs'
        /\ store'.currentSession.totalCount = 0
        /\ store'.currentSession.manualAdditions = 0
        /\ store'.currentSession.manualRemovals = 0
        /\ store'.currentSession.detections = <<>>
        /\ store'.currentSession.spatialMarkers = <<>>
        /\ store'.currentSession.syncedToSheet = FALSE
        /\ store.currentSession # NoSession
             => store'.currentSession.id # store.currentSession.id
    ]_vars

\* A "custom" session started over another session (hence the second id)
\* while a detection of that one was in flight.
C21_Witness ==
  /\ lastCmd = "startVisionMode"
  /\ lastArgs = <<"custom">>
  /\ store.currentSession # NoSession
  /\ store.currentSession.id = 2
  /\ Len(inflight) >= 1
  /\ now > 0

\* The state with the detection `id` not removed and all else as in s.
Restored(s, id) ==
  [ s EXCEPT
      !.currentDetections =
        [ i \in 1..Len(@) |->
            IF @[i].id = id
            THEN [@[i] EXCEPT !.boundingBox.isRemoved = FALSE] ELSE @[i] ] ]

\* C22: with an active session and a detection id of the transient list,
\* remove(id) followed by undo(id) leaves manualRemovals at its value before
\* the remove and the detection not removed, and changes nothing else.
C22_RemoveThenUndoRestores ==
  [][ /\ store.currentSession # NoSession
          => \A id \in DetectionIds(store.currentDetections) :
               undoRemoval(removeDetection(store, id), id) = Restored(store, id)
      /\ ( /\ lastCmd = "removeDetection" /\ lastCmd' = "undoRemoval"
           /\ lastArgs' = lastArgs
           /\ store.currentSession # NoSession
           /\ lastArgs[1] \in DetectionIds(store.currentDetections) )
          => /\ store'.currentSession.manualRemovals + 1
                  = store.currentSession.manualRemovals
             /\ store' = [ Restored(store, lastArgs[1]) EXCEPT
                             !.currentSession.manualRemovals = @ - 1 ]
    ]_vars

\* An undo that followed the remove of the same detection of the list, with
\* another detection beside it.
C22_Witness ==
  /\ lastCmd = "undoRemoval"
  /\ store.currentSession # NoSession
  /\ Len(lastArgs) = 1
  /\ lastArgs[1] \in DetectionIds(store.currentDetections)
  /\ Len(store.currentDetections) = 2
  /\ \A i \in 1..2 : ~store.currentDetections[i].boundingBox.isRemoved
  /\ store.currentSession.manualRemovals = 0
  /\ store.currentSession.manualAdditions = 1

----------------------------------------------------------------------------
(* ObjectDetectionService: properties *)

\* Area two boxes share, and whether their intersection-over-union is above
\* pct percent.
Overlap(a, b) ==
  LET w == MathMin(a.x + a.width, b.x + b.width) - MathMax(a.x, b.x)
      h == MathMin(a.y + a.height, b.y + b.height) - MathMax(a.y, b.y)
  IN  IF w > 0 /\ h > 0 THEN w * h ELSE 0

IoUAbove(a, b, pct) ==
  100 * Overlap(a, b) >
    pct * (a.width * a.height + b.width * b.height - Overlap(a, b))

Count(seq, e) == Cardinality({ i \in 1..Len(seq) : seq[i] = e })

\* The last step was a detectObjects call that took the shape path.
ShapePathRan == lastCmd = "detectObjects" /\ intermediate # <<>>

\* keep is a sub-collection of shapes with no two members overlapping by more
\* than the threshold.
SubCollectionApart(shapes, keep) ==
  /\ \A i \in 1..Len(keep) : Count(keep, keep[i]) <= Count(shapes, keep[i])
  /\ \A i, j \in 1..Len(keep) :
       i # j => ~IoUAbove(keep[i], keep[j], IouThreshold)

\* C23: for any candidate list, what nonMaxSuppression returns is a
\* sub-collection of the candidates, and no two retained candidates have an
\* intersection-over-union above 0.3; this holds for the list of every frame
\* and for what a detectObjects call handed to the suppression and got back.
C23_SuppressionKeepsSeparatedSubset ==
  /\ SubCollectionApart(camera.fits, nonMaxSuppression(camera.fits, IouThreshold))
  /\ ShapePathRan =>
       SubCollectionApart(intermediate[1].shapes, intermediate[1].keep)

\* A call suppressed one of three candidates and retained the two others.
C23_Witness ==
  /\ ShapePathRan
  /\ Len(intermediate[1].shapes) = 3
  /\ Len(intermediate[1].keep) = 2

\* The candidates in descending confidence, equal confidences in their
\* original order.
ByConfidence(shapes) ==
  LET n == Len(shapes)
      perm == CHOOSE f \in [1..n -> 1..n] :
                /\ \A i, j \in 1..n : i # j => f[i] # f[j]
                /\ \A i, j \in 1..n :
                     i < j => \/ shapes[f[i]].confidence > shapes[f[j]].confidence
                              \/ /\ shapes[f[i]].confidence = shapes[f[j]].confidence
                                 /\ f[i] < f[j]
  IN  [ i \in 1..n |-> shapes[perm[i]] ]

\* keep holds the most confident candidate first, and a candidate is missing
\* from it exactly when a retained candidate before it in the confidence
\* order overlaps it by more than the threshold.
GreedyByConfidence(shapes, keep) ==
  LET ordered == ByConfidence(shapes)
      n == Len(ordered)
  IN  /\ n > 0 =>
           /\ keep # <<>>
           /\ keep[1] = ordered[1]
           /\ \A i \in 1..n : keep[1].confidence >= shapes[i].confidence
      /\ \E K \in SUBSET (1..n) :
           /\ keep = Pick(ordered, K, 1)
           /\ \A i \in 1..n :
                i \notin K <=> \E j \in K : /\ j < i
                                            /\ IoUAbove(ordered[i], ordered[j], IouThreshold)

\* C24: the most confident candidate is always retained, and a candidate is
\* dropped if and only if a retained candidate that precedes it in
\* descending-confidence order overlaps it with intersection-over-union
\* above 0.3.
C24_SuppressionIsGreedyByConfidence ==
  /\ GreedyByConfidence(camera.fits, nonMaxSuppression(camera.fits, IouThreshold))
  /\ ShapePathRan =>
       GreedyByConfidence(intermediate[1].shapes, intermediate[1].keep)

\* Two candidates with intersection-over-union 0.5, the less confident one
\* first in the list: only the more confident one was retained.
C24_Witness ==
  /\ ShapePathRan
  /\ intermediate[1].shapes = << Shape(26, 0, 78, 20, 60), Shape(0, 0, 78, 20, 90) >>
  /\ intermediate[1].keep = << Shape(0, 0, 78, 20, 90) >>

\* Boxes and confidences of a detection list, in its order.
Emitted(detections) ==
  [ i \in 1..Len(detections) |->
      Shape(detections[i].boundingBox.x, detections[i].boundingBox.y,
            detections[i].boundingBox.width, detections[i].boundingBox.height,
            detections[i].confidence) ]

\* The one sub-list of the candidates that is greedy by confidence.
Survivors(shapes) ==
  LET ordered == ByConfidence(shapes)
      n == Len(ordered)
      K == CHOOSE K \in SUBSET (1..n) :
             \A i \in 1..n :
               i \notin K <=> \E j \in K : /\ j < i
                                           /\ IoUAbove(ordered[i], ordered[j], IouThreshold)
  IN  Pick(ordered, K, 1)

\* C25: for the circle and the rectangle template and every
\* confidenceThreshold, thresholds below 0.5 included, the emitted detections
\* are exactly the shapes that survive the suppression run over all fitted
\* shapes of the frame and whose confidence is not below confidenceThreshold.
C25_EmittedAreSurvivorsAtThreshold ==
  ( /\ lastCmd = "detectObjects"
    /\ lastArgs[2] \in {"circles", "rectangles"}
    /\ WellFormed(lastArgs[1]) ) =>
    /\ "detections" \in DOMAIN returned
    /\ Emitted(returned.detections) =
         SelectSeq(Survivors(lastArgs[1].fits),
                   LAMBDA shape : shape.confidence >= lastArgs[3])

\* What a settled detectObjects call delivered, without the new ids.
WithoutIds(result) ==
  IF "detections" \in DOMAIN result
    THEN [ detections |->
             [ i \in 1..Len(result.detections) |->
                 [ k \in DOMAIN result.detections[i] \ {"id"} |->
                     result.detections[i][k] ] ] ]
    ELSE result

C27_MalformedFrameFails ==
  (lastCmd = "detectObjects" /\ ~WellFormed(lastArgs[1])) =>
    "error" \in DOMAIN returned

\* C28: with the generic template and no model in the service (never
\* initialized, failed to load, or disposed), a detection request fails with
\* an error and never completes with a detection list.
C28_GenericWithoutModelFails ==
  (lastCmd = "detectObjects" /\ lastArgs[2] = "custom" /\ ~service.model) =>
    "error" \in DOMAIN returned

\* C29: an initialize() call made after a load failed starts a load again.
C29_InitializeRetriesAfterFailure ==
  [][ (lastCmd' = "initialize" /\ service.loadPromise = "rejected") =>
        service'.loadPromise = "pending"
    ]_vars

----------------------------------------------------------------------------
(* Sheet store: properties *)

\* C30: when addCountToSheet(session) has completed for a finalized
\* snapshot, the sheet named by session.sheetId holds exactly one new row,
\* the row's quantity field equals session.totalCount, and the persisted
\* session's rowId is the id of that row.
C30_SessionLinkedToItsRow ==
  [][ lastCmd' = "addCountToSheet" =>
        LET session == lastArgs'[1]
            row == returned'
        IN  /\ sheets'.rows =
                 [sheets.rows EXCEPT ![session.sheetId] = Append(@, row)]
            /\ row.values.quantity = session.totalCount
            /\ \E i \in 1..Len(sheets'.sessions) :
                 /\ sheets'.sessions[i].id = session.id
                 /\ sheets'.sessions[i].rowId = row.id
    ]_vars

----------------------------------------------------------------------------
(* Store commands: what they change and what they leave alone *)

\* C31: with an active session, pause changes only isPaused and resume
\* changes only isPaused and lastActivityTime, which becomes the current
\* time: the transient list with its isRemoved flags, the session record,
\* its markers and confirmedCount stay; a resume that follows a pause of a
\* running session leads back to Running with the same transient list.
C31_PauseResumeKeepTheRest ==
  [][ /\ (lastCmd' = "pauseVisionMode" /\ store.currentSession # NoSession) =>
           store' = [store EXCEPT !.isPaused = TRUE]
      /\ (lastCmd' = "resumeVisionMode" /\ store.currentSession # NoSession) =>
           /\ store' = [store EXCEPT !.isPaused = FALSE, !.lastActivityTime = now']
           /\ now' = now
      /\ ( /\ lastCmd = "pauseVisionMode" /\ lastCmd' = "resumeVisionMode"
           /\ store.currentSession # NoSession /\ ~store.isSleeping ) =>
           /\ store'.isActive /\ ~store'.isPaused /\ ~store'.isSleeping
           /\ store'.currentDetections = store.currentDetections
    ]_vars

\* A resume right after a pause, later than the last activity, with a
\* removed detection in the transient list.
C31_Witness ==
  /\ lastCmd = "resumeVisionMode"
  /\ store.currentSession # NoSession
  /\ ~store.isPaused
  /\ store.lastActivityTime = now
  /\ now > 0
  /\ \E i \in 1..Len(store.currentDetections) :
       store.currentDetections[i].boundingBox.isRemoved

\* Number of detections of a list that are not removed.
NotRemovedCount(dets) ==
  Cardinality({ i \in 1..Len(dets) : ~dets[i].boundingBox.isRemoved })

\* s' is s with one detection appended: the given box, confidence 1.0, added
\* by hand, not removed, an id no detection of s has, and manualAdditions
\* one higher.
ManualAppended(s, t, box) ==
  /\ Len(t.currentDetections) = Len(s.currentDetections) + 1
  /\ SubSeq(t.currentDetections, 1, Len(s.currentDetections)) = s.currentDetections
  /\ LET d == t.currentDetections[Len(t.currentDetections)]
     IN  /\ d.boundingBox = [ x |-> box.x, y |-> box.y, width |-> box.width,
                              height |-> box.height, confidence |-> 100,
                              isManuallyAdded |-> TRUE, isRemoved |-> FALSE ]
         /\ d.id \notin DetectionIds(s.currentDetections)
  /\ t.currentSession =
       [s.currentSession EXCEPT !.manualAdditions = @ + 1]
  /\ NotRemovedCount(t.currentDetections) = NotRemovedCount(s.currentDetections) + 1
  /\ [t EXCEPT !.currentDetections = <<>>, !.currentSession = NoSession]
       = [s EXCEPT !.currentDetections = <<>>, !.currentSession = NoSession]

\* C32: with an active session, addManual(x, y, w, h) appends exactly one
\* detection at the end of the transient list, with the given box,
\* confidence 1.0, isManuallyAdded true and isRemoved false, leaves the
\* existing detections unchanged and in place, and raises
\* session.manualAdditions and the non-removed count by exactly 1.
C32_AddManualAppendsOne ==
  [][ /\ store.currentSession # NoSession =>
           \A box \in Boxes :
             ManualAppended(store,
                            addManualDetection(store, box.x, box.y, box.width,
                                               box.height, uuidv4(UsedIds)),
                            box)
      /\ (lastCmd' = "addManualDetection" /\ store.currentSession # NoSession) =>
           \E box \in Boxes : ManualAppended(store, store', box)
    ]_vars

\* A detection added by hand behind a removed one.
C32_Witness ==
  /\ lastCmd = "addManualDetection"
  /\ store.currentSession # NoSession
  /\ Len(store.currentDetections) = 2
  /\ store.currentDetections[1].boundingBox.isRemoved
  /\ store.currentDetections[2].boundingBox.isManuallyAdded
  /\ store.currentSession.manualAdditions = 1

\* t's list is s's list, detection by detection, but for the isRemoved flag
\* of the detection with the given id.
OnlyFlagOf(s, t, id) ==
  /\ Len(t.currentDetections) = Len(s.currentDetections)
  /\ \A i \in 1..Len(s.currentDetections) :
       LET d == s.currentDetections[i]
           e == t.currentDetections[i]
       IN  /\ e.id = d.id
           /\ d.id # id => e = d
           /\ [e EXCEPT !.boundingBox.isRemoved = FALSE]
                = [d EXCEPT !.boundingBox.isRemoved = FALSE]

\* C33: remove(id) and undo(id) never change the length, the order or the
\* ids of the transient list, nor any field of a detection but isRemoved of
\* the detection named by id: a removed detection stays in the list, and
\* undo restores it.
C33_SoftDelete ==
  [][ /\ \A id \in KnownIds :
           /\ OnlyFlagOf(store, removeDetection(store, id), id)
           /\ OnlyFlagOf(store, undoRemoval(store, id), id)
      /\ (lastCmd' \in {"removeDetection", "undoRemoval"} /\ Len(lastArgs') = 1) =>
           /\ OnlyFlagOf(store, store', lastArgs'[1])
           /\ \E i \in 1..Len(store'.currentDetections) :
                /\ store'.currentDetections[i].id = lastArgs'[1]
                /\ store'.currentDetections[i].boundingBox.isRemoved
                     = (lastCmd' = "removeDetection")
    ]_vars

\* A removed detection still in the list, beside another one, after the
\* click that removed it.
C33_Witness ==
  /\ lastCmd = "removeDetection"
  /\ Len(lastArgs) = 1
  /\ Len(store.currentDetections) = 2
  /\ \E i \in 1..2 :
       /\ store.currentDetections[i].id = lastArgs[1]
       /\ store.currentDetections[i].boundingBox.isRemoved
  /\ \E i \in 1..2 : ~store.currentDetections[i].boundingBox.isRemoved

\* The marker list of the session of a state; no session, no markers.
Markers(s) ==
  IF s.currentSession = NoSession THEN <<>> ELSE s.currentSession.spatialMarkers

IsPrefix(a, b) == Len(a) <= Len(b) /\ SubSeq(b, 1, Len(a)) = a

\* The states a step publishes, from the state it found to the state it left.
Published == <<store>> \o intermediate' \o <<store'>>

\* C34: the marker list of the session changes only under confirm and
\* addSpatialMarker, which append, and under start, stop, resetSession and
\* clearSpatialMarkers, which clear: every other command leaves it as it is,
\* a frame result creates no marker, and confirm removes no marker that a
\* confirm has committed, in none of the states it publishes.
C34_MarkersOnlyAppendedOrCleared ==
  [][ /\ Markers(store') # Markers(store) =>
           lastCmd' \in { "confirmAndSync", "addCountToSheet", "addSpatialMarker",
                          "startVisionMode", "stopVisionMode", "resetSession",
                          "clearSpatialMarkers" }
      /\ lastCmd' = "addSpatialMarker" =>
           IsPrefix(Markers(store), Markers(store'))
      /\ lastCmd' = "confirmAndSync" =>
           \A i \in 1..(Len(Published) - 1) :
             IsPrefix(Markers(Published[i]), Markers(Published[i + 1]))
    ]_vars

\* C35: in every reachable state, and in every state a handler publishes on
\* its way, isActive is true if and only if there is a current session.
C35_ActiveIffSession ==
  /\ store.isActive <=> store.currentSession # NoSession
  /\ \A i \in 1..Len(intermediate) :
       "isActive" \in DOMAIN intermediate[i] =>
         (intermediate[i].isActive <=> intermediate[i].currentSession # NoSession)

\* A confirm has returned a snapshot: the store is active with the session
\* the confirm opened.
C35_Witness ==
  /\ lastCmd = "confirmAndSync"
  /\ returned # NoValue
  /\ store.isActive
  /\ store.currentSession # NoSession
  /\ store.currentSession.id # returned.id

\* Number of detections of a list that are removed.
RemovedCount(dets) ==
  Cardinality({ i \in 1..Len(dets) : dets[i].boundingBox.isRemoved })

\* C36: with an active session, remove(id) and undo(id) change
\* session.manualRemovals only when they flip the flag of a detection: a
\* remove raises it by the number of detections it turned removed, an undo
\* lowers it by the number it turned back, and a call that flips nothing
\* leaves the whole state as it is.
C36_RemovalsFollowFlips ==
  [][ ( /\ lastCmd' \in {"removeDetection", "undoRemoval"}
        /\ store.currentSession # NoSession ) =>
        /\ store'.currentSession.manualRemovals - store.currentSession.manualRemovals
             = RemovedCount(store'.currentDetections)
                 - RemovedCount(store.currentDetections)
        /\ store'.currentDetections = store.currentDetections => store' = store
    ]_vars

----------------------------------------------------------------------------
(* Syncs: rows and counts *)

RowOf(session) ==
  \E i \in 1..Len(sheets.rows[session.sheetId]) :
    sheets.rows[session.sheetId][i].countSessionId = session.id

\* C37: when no addCountToSheet call is under way, the sheet of every session
\* a call saved holds a row of that session, also when the calls overlapped.
C37_NoLostRows ==
  sheets.calls = <<>> =>
    \A k \in 1..Len(sheets.sessions) : RowOf(sheets.sessions[k])

\* C38: a handleSync that ends in its catch ends for a session whose row was
\* written: the call that failed had passed db.put('sheets', sheet), so the
\* count confirmAndSync added to confirmedCount has its row.
C38_ConfirmedCountHasRow ==
  [][ lastCmd' = "handleSync: catch"
        => \E i \in 1..Len(sheets.calls) :
             /\ sheets.calls[i].session = lastArgs'[1]
             /\ sheets.calls[i].session.syncedToSheet
             /\ sheets.calls[i].pc = "saveSession" ]_vars

----------------------------------------------------------------------------
(* Results and capture order *)

\* The pending detections whose frame is older than a frame whose result has
\* already been handed to setDetections.
Superseded(calls) == { j \in 1..Len(calls) : calls[j].superseded }

\* C39: a result that handleFrameCapture hands to setDetections is never the
\* result of a frame captured before a frame whose result was applied
\* already: applying a result does not take a superseded call off the
\* pending ones.
C39_ResultsInCaptureOrder ==
  [][ lastCmd' = "setDetections" /\ Len(inflight') < Len(inflight)
        => Cardinality(Superseded(inflight')) >= Cardinality(Superseded(inflight)) ]_vars

----------------------------------------------------------------------------
(* Model loading *)

\* C40: at most one _loadModel call is under way; an initialize() made while
\* one is under way starts nothing and returns the promise of that load; and
\* after a load has succeeded initialize() starts no load, with or without a
\* model.
C40_SingleFlightLoad ==
  [][ /\ service'.loads <= 1
      /\ lastCmd' = "initialize" =>
           /\ service.loads = 1 =>
                service' = service /\ returned'.promise = service.loadPromise
           /\ service.loadPromise = "fulfilled" =>
                service' = service /\ returned'.promise = "fulfilled"
           /\ service'.loads > service.loads =>
                service.loads = 0 /\ service.loadPromise = "none" ]_vars

\* initialize() after a load succeeded and dispose() dropped the model: no
\* load is under way and the call returned the settled promise.
C40_Witness ==
  /\ lastCmd = "initialize"
  /\ ~service.model /\ service.loadPromise = "fulfilled" /\ service.loads = 0
  /\ returned.promise = "fulfilled"

====
